---------------------------- MODULE Spec2Model ----------------------------
(***************************************************************************)
(* The Recommendations service (service/models.py, service/routes.py):     *)
(* the entity validator, the query filter builder, the optimistic update   *)
(* guard and the resource handlers.                                        *)
(*                                                                         *)
(* Three specifications share this module:                                 *)
(*   Spec       the HTTP surface over the store, with concurrent requests, *)
(*              each with its own ORM session;                             *)
(*   SpecDeser  Recommendations.deserialize applied to arbitrary payloads; *)
(*   SpecQuery  Recommendations.find_by_filters over larger tables.        *)
(***************************************************************************)
EXTENDS Integers, Sequences, FiniteSets, TLC

VARIABLES
    db,       \* the recommendations table: id -> row, NoRow when absent
    nextId,   \* the primary-key sequence of the table
    now,      \* the database clock
    pc,       \* per request slot: "idle", or "loaded" (entity found, not yet updated)
    sess,     \* per request slot: the ORM session of the request in flight
    last,     \* the response of the request that completed last
    served,   \* the number of requests received so far
    ent,      \* SpecDeser: the entity deserialize is called on
    dcall,    \* SpecDeser: the last deserialize call (payload, entity before, outcome)
    store,    \* SpecQuery: the table, as a sequence of rows in heap order
    pages     \* SpecQuery: the results of the queries run since the table last changed

vars == <<db, nextId, now, pc, sess, last, served, ent, dcall, store, pages>>
svcVars == <<db, nextId, now, pc, sess, last, served>>
deserVars == <<ent, dcall>>
queryVars == <<store, pages>>

----------------------------------------------------------------------------
(* Bounds of the model *)

MaxId == 2        \* ids the sequence hands out
MaxTime == 1      \* ticks of the database clock
MaxLike == 2      \* likes counted
MaxReqs == 2      \* requests in flight at once
MaxServed == 3    \* requests received in one run
MaxBlock == 11    \* SpecQuery: rows of the table that differ only in id
MaxExtra == 1     \* SpecQuery: further rows of the table, each chosen freely
MaxListed == 3    \* SpecList: rows of the table

Ids == 1..MaxId
Reqs == 1..MaxReqs
Times == 0..MaxTime

----------------------------------------------------------------------------
(* JSON values, as request.get_json() hands them to deserialize.  A Python *)
(* bool is an int (isinstance(True, int) holds, True == 1), so booleans    *)
(* carry their integer value in n.                                         *)

JInt(k) == [t |-> "int", n |-> k, s |-> ""]
JBool(b) == [t |-> "bool", n |-> IF b THEN 1 ELSE 0, s |-> ""]
JStr(x) == [t |-> "str", n |-> 0, s |-> x]
JNull == [t |-> "null", n |-> 0, s |-> ""]
JFloat == [t |-> "float", n |-> 1, s |-> ""]     \* a non-integral number such as 1.5
JList == [t |-> "list", n |-> 0, s |-> ""]       \* an array

Absent == [t |-> "absent", n |-> 0, s |-> ""]    \* no value: the key is not there

\* Python's ==, as used by `in` and by the ORM's change detection
PyEq(a, b) ==
    IF a.t \in {"int", "bool"} /\ b.t \in {"int", "bool"} THEN a.n = b.n ELSE a = b

RecommendationTypes == {"cross-sell", "up-sell", "accessory"}
Statuses == {"active", "expired", "draft"}

BusinessKeys == <<"product_id", "recommended_id", "recommendation_type", "status">>
BusinessKeySet == {"product_id", "recommended_id", "recommendation_type", "status"}
PayloadKeys == BusinessKeySet \cup {"id", "like", "dislike"}

\* A request payload: a JSON object with the keys in `keys`, or (isMap false)
\* any other JSON value: null, an array, a string, a number
Payload(ks, f) == [isMap |-> TRUE, keys |-> ks, val |-> f]
NonMapping == [isMap |-> FALSE, keys |-> {}, val |-> [k \in PayloadKeys |-> JNull]]

----------------------------------------------------------------------------
(* The entity: an in-memory Recommendations instance.  None is NoneInt for *)
(* the integer attributes and JNull for the validated ones.                *)

NoneInt == -1

NewEntity ==
    [id |-> NoneInt, product_id |-> JNull, recommended_id |-> JNull,
     recommendation_type |-> JNull, status |-> JNull,
     like |-> NoneInt, dislike |-> NoneInt,
     created_at |-> NoneInt, last_updated |-> NoneInt]

Returned(self) == [self |-> self, exc |-> "", msg |-> ""]
Raised(self, e, m) == [self |-> self, exc |-> e, msg |-> m]

IsInstanceInt(value) == value.t \in {"int", "bool"}

product_id_setter(self, value) ==
    IF ~IsInstanceInt(value)
    THEN Raised(self, "DataValidationError", "Invalid product_id: must be an integer")
    ELSE IF value.n <= 0
    THEN Raised(self, "DataValidationError", "Invalid product_id: must be a positive number")
    ELSE Returned([self EXCEPT !.product_id = value])

\* a setter that checks the type only
recommended_id_setter_any_integer(self, value) ==
    IF ~IsInstanceInt(value)
    THEN Raised(self, "DataValidationError", "Invalid recommended_id: must be an integer")
    ELSE Returned([self EXCEPT !.recommended_id = value])

recommended_id_setter(self, value) ==
    IF ~IsInstanceInt(value)
    THEN Raised(self, "DataValidationError", "Invalid recommended_id: must be an integer")
    ELSE IF value.n <= 0
    THEN Raised(self, "DataValidationError", "Invalid recommended_id: must be a positive number")
    ELSE Returned([self EXCEPT !.recommended_id = value])

\* a setter that stores the first option whatever valid value it is given
recommendation_type_setter_first_option(self, value) ==
    IF ~(\E o \in RecommendationTypes : PyEq(value, JStr(o)))
    THEN Raised(self, "DataValidationError", "Invalid recommendation_type: must be one of")
    ELSE Returned([self EXCEPT !.recommendation_type = JStr("cross-sell")])

recommendation_type_setter(self, value) ==
    IF ~(\E o \in RecommendationTypes : PyEq(value, JStr(o)))
    THEN Raised(self, "DataValidationError", "Invalid recommendation_type: must be one of")
    ELSE Returned([self EXCEPT !.recommendation_type = value])

status_setter(self, value) ==
    IF ~(\E o \in Statuses : PyEq(value, JStr(o)))
    THEN Raised(self, "DataValidationError", "Invalid status: must be one of")
    ELSE Returned([self EXCEPT !.status = value])

SetAttr(self, key, value) ==
    CASE key = "product_id" -> product_id_setter(self, value)
      [] key = "recommended_id" -> recommended_id_setter(self, value)
      [] key = "recommendation_type" -> recommendation_type_setter(self, value)
      [] key = "status" -> status_setter(self, value)

\* self.<key> = data["<key>"]: the subscript raises TypeError on anything that
\* is not a mapping and KeyError on an absent key; then the setter runs
AssignFrom(res, data, key) ==
    IF res.exc # "" THEN res
    ELSE IF ~data.isMap THEN Raised(res.self, "TypeError", "not subscriptable")
    ELSE IF key \notin data.keys THEN Raised(res.self, "KeyError", key)
    ELSE SetAttr(res.self, key, data.val[key])

RECURSIVE AssignAll(_, _, _)
AssignAll(res, data, i) ==
    IF i > Len(BusinessKeys) THEN res
    ELSE AssignAll(AssignFrom(res, data, BusinessKeys[i]), data, i + 1)

\* a deserialize that also takes like and dislike from the payload
deserialize_reads_counters(self, data) ==
    LET body == AssignAll(Returned(self), data, 1) IN
    IF body.exc # ""
    THEN Raised(body.self, "DataValidationError", body.msg)
    ELSE Returned([body.self EXCEPT
            !.like = IF "like" \in data.keys THEN data.val["like"].n ELSE @,
            !.dislike = IF "dislike" \in data.keys THEN data.val["dislike"].n ELSE @])

\* Recommendations.deserialize: the four assignments in order, then the
\* except clauses
deserialize(self, data) ==
    LET body == AssignAll(Returned(self), data, 1) IN
    CASE body.exc = "AttributeError" ->
            Raised(body.self, "DataValidationError", "Invalid attribute: " \o body.msg)
      [] body.exc = "KeyError" ->
            Raised(body.self, "DataValidationError",
                   "Invalid Recommendations: missing " \o body.msg)
      [] body.exc = "TypeError" ->
            Raised(body.self, "DataValidationError",
                   "Invalid Recommendations: body of request contained bad or no data. "
                       \o body.msg)
      [] OTHER -> body

\* Recommendations.serialize of an instance in memory: the dictionary of its
\* attributes, each read through its property
serialize_instance(self) ==
    [id |-> self.id,
     product_id |-> self.product_id,
     recommended_id |-> self.recommended_id,
     recommendation_type |-> self.recommendation_type,
     status |-> self.status,
     last_updated |-> self.last_updated,
     created_at |-> self.created_at,
     like |-> self.like,
     dislike |-> self.dislike]

----------------------------------------------------------------------------
(* The table and the ORM session.                                          *)
(*                                                                         *)
(* Every request runs in a session of its own (db.session is scoped to the *)
(* request's application context).  Session.get, which find() calls,       *)
(* answers from the session's identity map when the instance is already    *)
(* loaded there and only otherwise reads the table.  On flush the ORM      *)
(* writes the attributes whose value differs from the loaded one, and      *)
(* writes nothing when none differs.  now() is the start time of the       *)
(* transaction, i.e. of the session's first statement.                     *)

NoRow ==
    [id |-> 0, product_id |-> 0, recommended_id |-> 0,
     recommendation_type |-> "", status |-> "", like |-> 0, dislike |-> 0,
     created_at |-> 0, last_updated |-> 0]

NoEntity == NewEntity      \* find() returning None

\* the ORM loading a row into an instance
FromRow(row) ==
    IF row = NoRow THEN NoEntity
    ELSE [id |-> row.id, product_id |-> JInt(row.product_id),
          recommended_id |-> JInt(row.recommended_id),
          recommendation_type |-> JStr(row.recommendation_type),
          status |-> JStr(row.status), like |-> row.like, dislike |-> row.dislike,
          created_at |-> row.created_at, last_updated |-> row.last_updated]

\* an attribute bound to an Integer column: the driver casts it, True to 1
IntParam(v) == v.n
\* an attribute bound to an Enum column
EnumParam(v) == v.s

NoSession ==
    [op |-> "", id |-> 0, obj |-> NoEntity, committed |-> NoEntity,
     body |-> [wf |-> TRUE, data |-> NonMapping], txn |-> 0]

\* Recommendations.find within session s: cls.query.session.get(cls, by_id)
find(table, s, by_id) ==
    IF s.obj # NoEntity /\ s.obj.id = by_id THEN s.obj
    ELSE IF by_id \in DOMAIN table THEN FromRow(table[by_id])
    ELSE NoEntity

\* the columns a flush of session s writes
Dirty(s) ==
    {k \in BusinessKeySet : ~PyEq(s.obj[k], s.committed[k])}
        \cup {k \in {"like", "dislike"} : s.obj[k] # s.committed[k]}

\* an UPDATE that also sets created_at to now()
UpdatedRow_sets_created_at(row, s) ==
    LET d == Dirty(s) IN
    [id |-> row.id,
     product_id |-> IF "product_id" \in d THEN IntParam(s.obj.product_id)
                    ELSE row.product_id,
     recommended_id |-> IF "recommended_id" \in d THEN IntParam(s.obj.recommended_id)
                        ELSE row.recommended_id,
     recommendation_type |-> IF "recommendation_type" \in d
                             THEN EnumParam(s.obj.recommendation_type)
                             ELSE row.recommendation_type,
     status |-> IF "status" \in d THEN EnumParam(s.obj.status) ELSE row.status,
     like |-> IF "like" \in d THEN s.obj.like ELSE row.like,
     dislike |-> IF "dislike" \in d THEN s.obj.dislike ELSE row.dislike,
     created_at |-> s.txn,
     last_updated |-> s.txn]

\* the row after UPDATE ... SET <dirty columns>, last_updated = now() WHERE id = ...
UpdatedRow(row, s) ==
    LET d == Dirty(s) IN
    [id |-> row.id,
     product_id |-> IF "product_id" \in d THEN IntParam(s.obj.product_id)
                    ELSE row.product_id,
     recommended_id |-> IF "recommended_id" \in d THEN IntParam(s.obj.recommended_id)
                        ELSE row.recommended_id,
     recommendation_type |-> IF "recommendation_type" \in d
                             THEN EnumParam(s.obj.recommendation_type)
                             ELSE row.recommendation_type,
     status |-> IF "status" \in d THEN EnumParam(s.obj.status) ELSE row.status,
     like |-> IF "like" \in d THEN s.obj.like ELSE row.like,
     dislike |-> IF "dislike" \in d THEN s.obj.dislike ELSE row.dislike,
     created_at |-> row.created_at,
     last_updated |-> s.txn]

Outcome(table, e, m) == [db |-> table, exc |-> e, msg |-> m]

StoreErrorText == "(psycopg.OperationalError) server closed the connection unexpectedly"
StaleDataText == "UPDATE statement on table 'recommendations' expected to update 1 row(s); 0 were matched."
ConflictText == "The record was updated by another process."

\* db.session.commit() of session s: the flush, then COMMIT.  `fails` is the
\* store failing the commit.
commit(table, s, fails) ==
    IF Dirty(s) # {} /\ table[s.id] = NoRow
    THEN Outcome(table, "StaleDataError", StaleDataText)
    ELSE IF fails THEN Outcome(table, "OperationalError", StoreErrorText)
    ELSE IF Dirty(s) = {} THEN Outcome(table, "", "")
    ELSE Outcome([table EXCEPT ![s.id] = UpdatedRow(table[s.id], s)], "", "")

\* an update that reports a conflict when the row is gone
update_conflict_when_absent(table, s, fails) ==
    IF table[s.id] = NoRow
    THEN Outcome(table, "DataValidationError", ConflictText)
    ELSE LET c == commit(table, s, fails) IN
         IF c.exc # ""
         THEN Outcome(table, "DataValidationError", c.msg)
         ELSE c

\* Recommendations.update, self being the instance of session s
update(table, s, fails) ==
    LET current == find(table, s, s.obj.id) IN
    IF current # NoEntity /\ current.last_updated # s.obj.last_updated
    THEN Outcome(table, "DataValidationError", ConflictText)       \* rollback, raise
    ELSE LET c == commit(table, s, fails) IN
         IF c.exc # ""
         THEN Outcome(table, "DataValidationError", c.msg)         \* rollback, raise
         ELSE c

\* a create that takes the lowest id no row holds
create_reuses_freed_id(table, self, nid, t, fails) ==
    LET free == CHOOSE i \in Ids :
                    table[i] = NoRow /\ \A j \in Ids : j < i => table[j] # NoRow IN
    IF fails THEN Outcome(table, "DataValidationError", StoreErrorText)
    ELSE Outcome([table EXCEPT ![free] =
                     [id |-> free,
                      product_id |-> IntParam(self.product_id),
                      recommended_id |-> IntParam(self.recommended_id),
                      recommendation_type |-> EnumParam(self.recommendation_type),
                      status |-> EnumParam(self.status),
                      like |-> IF self.like = NoneInt THEN 0 ELSE self.like,
                      dislike |-> IF self.dislike = NoneInt THEN 0 ELSE self.dislike,
                      created_at |-> t, last_updated |-> t]],
                 "", "")

\* Recommendations.create: INSERT with the column defaults, then COMMIT
create(table, self, nid, t, fails) ==
    IF fails THEN Outcome(table, "DataValidationError", StoreErrorText)
    ELSE Outcome([table EXCEPT ![nid] =
                     [id |-> nid,
                      product_id |-> IntParam(self.product_id),
                      recommended_id |-> IntParam(self.recommended_id),
                      recommendation_type |-> EnumParam(self.recommendation_type),
                      status |-> EnumParam(self.status),
                      like |-> IF self.like = NoneInt THEN 0 ELSE self.like,
                      dislike |-> IF self.dislike = NoneInt THEN 0 ELSE self.dislike,
                      created_at |-> t, last_updated |-> t]],
                 "", "")

\* a delete that commits without removing the row
delete_keeps_row(table, by_id, fails) ==
    IF fails THEN Outcome(table, "DataValidationError", StoreErrorText)
    ELSE Outcome(table, "", "")

\* Recommendations.delete: DELETE, then COMMIT
delete(table, by_id, fails) ==
    IF fails THEN Outcome(table, "DataValidationError", StoreErrorText)
    ELSE Outcome([table EXCEPT ![by_id] = NoRow], "", "")

\* Recommendations.serialize, of the row as the instance reloads it
serialize(row) == row

----------------------------------------------------------------------------
(* Requests and responses *)

\* the Content-Type header of a request; "" is no header
ContentTypes ==
    {"application/json", "application/json; charset=utf-8", "text/plain", ""}

Fields(pid, rid, ty, st) ==
    [k \in PayloadKeys |->
        CASE k = "product_id" -> pid
          [] k = "recommended_id" -> rid
          [] k = "recommendation_type" -> ty
          [] k = "status" -> st
          [] OTHER -> JInt(1)]

\* the payloads the requests of Spec carry
SvcPayloads ==
    { Payload(BusinessKeySet,
              Fields(JInt(1), JInt(1), JStr("cross-sell"), JStr("active"))),
      Payload(PayloadKeys,
              Fields(JInt(2), JInt(2), JStr("up-sell"), JStr("expired"))),
      Payload(BusinessKeySet,
              Fields(JInt(2), JInt(0), JStr("up-sell"), JStr("expired"))) }


\* a request body: JSON that parses (wf) to data, or malformed JSON
Bodies ==
    {[wf |-> TRUE, data |-> d] : d \in SvcPayloads}
        \cup {[wf |-> FALSE, data |-> NonMapping]}


Response(op, i, code, msg, body, data) ==
    [op |-> op, id |-> i, code |-> code, msg |-> msg, body |-> body, data |-> data,
     storeFailed |-> FALSE, stale |-> FALSE, guarded |-> FALSE, wrote |-> FALSE]

NoResponse == Response("", 0, 0, "", NoRow, NonMapping)

\* a check that lets a request without the header through
check_content_type_if_present(hdr, content_type) == hdr = "" \/ hdr = content_type

\* check_content_type
check_content_type(hdr, content_type) == hdr # "" /\ hdr = content_type

NotFoundText == "Recommendation was not found."

\* the application's handler of a DataValidationError no route catches
request_validation_error == 400

----------------------------------------------------------------------------
(* The resource handlers.  A handler that reads the entity and later       *)
(* writes it (PUT, like) is two steps, one per transaction with the store; *)
(* the other handlers are one step.                                        *)

\* a request arrives
Receive == served < MaxServed /\ served' = served + 1

\* the slot a request that keeps a session open between two steps takes
FreeSlot(r) == pc[r] = "idle" /\ \A q \in Reqs : q < r => pc[q] # "idle"

Tick ==
    /\ now < MaxTime
    /\ now' = now + 1
    /\ UNCHANGED <<db, nextId, pc, sess, last, served>>

\* POST /recommendations
create_recommendations(hdr, body, fails) ==
    IF ~check_content_type(hdr, "application/json")
    THEN [db |-> db, resp |-> Response("create", 0, 415,
                  "Content-Type must be application/json", NoRow, NonMapping)]
    ELSE IF ~body.wf          \* get_json raises BadRequest inside the try
    THEN [db |-> db, resp |-> Response("create", 0, 500,
                  "An unexpected error occurred", NoRow, NonMapping)]
    ELSE LET d == deserialize(NewEntity, body.data) IN
         IF d.exc # ""
         THEN [db |-> db, resp |-> Response("create", 0, 400, d.msg, NoRow, body.data)]
         ELSE LET c == create(db, d.self, nextId, now, fails) IN
              IF c.exc # ""
              THEN [db |-> db,
                    resp |-> [Response("create", 0, 400, c.msg, NoRow, body.data)
                                 EXCEPT !.storeFailed = fails]]
              ELSE [db |-> c.db,
                    resp |-> [Response("create", nextId, 201, "",
                                       serialize(c.db[nextId]), body.data)
                                 EXCEPT !.wrote = TRUE]]

CreateRecommendations(hdr, body, fails) ==
    LET h == create_recommendations(hdr, body, fails) IN
    /\ nextId <= MaxId
    /\ Receive
    /\ db' = h.db
    /\ nextId' = IF h.resp.code = 201 THEN nextId + 1 ELSE nextId
    /\ last' = h.resp
    /\ UNCHANGED <<now, pc, sess>>

\* a GET that answers 200 with an empty entity for an id that is not stored
get_recommendations_always_200(table, i) ==
    Response("get", i, 200, "", serialize(table[i]), NonMapping)

\* GET /recommendations/<id>
get_recommendations(table, i) ==
    LET recommendation == find(table, NoSession, i) IN
    IF recommendation = NoEntity
    THEN Response("get", i, 404, NotFoundText, NoRow, NonMapping)
    ELSE Response("get", i, 200, "", serialize(table[i]), NonMapping)

GetRecommendations(i) ==
    /\ Receive
    /\ last' = get_recommendations(db, i)
    /\ UNCHANGED <<db, nextId, now, pc, sess>>

\* a DELETE handler that answers 404 for an id that is not stored
delete_recommendations_missing_404(i, fails) ==
    LET recommendation == find(db, NoSession, i) IN
    IF recommendation = NoEntity
    THEN [db |-> db, resp |-> Response("delete", i, 404, NotFoundText, NoRow, NonMapping)]
    ELSE LET c == delete(db, i, fails) IN
         IF c.exc # ""
         THEN [db |-> db,
               resp |-> [Response("delete", i, 500, "An unexpected error occurred",
                                  NoRow, NonMapping) EXCEPT !.storeFailed = fails]]
         ELSE [db |-> c.db,
               resp |-> [Response("delete", i, 204, "", NoRow, NonMapping)
                            EXCEPT !.wrote = TRUE]]

\* DELETE /recommendations/<id>
delete_recommendations(i, fails) ==
    LET recommendation == find(db, NoSession, i) IN
    IF recommendation = NoEntity
    THEN [db |-> db, resp |-> Response("delete", i, 204, "", NoRow, NonMapping)]
    ELSE LET c == delete(db, i, fails) IN
         IF c.exc # ""       \* a DataValidationError: the except Exception clause
         THEN [db |-> db,
               resp |-> [Response("delete", i, 500, "An unexpected error occurred",
                                  NoRow, NonMapping) EXCEPT !.storeFailed = fails]]
         ELSE [db |-> c.db,
               resp |-> [Response("delete", i, 204, "", NoRow, NonMapping)
                            EXCEPT !.wrote = TRUE]]

DeleteRecommendations(i, fails) ==
    LET h == delete_recommendations(i, fails) IN
    /\ Receive
    /\ db' = h.db
    /\ last' = h.resp
    /\ UNCHANGED <<nextId, now, pc, sess>>

\* PUT /recommendations/<id>, up to the entity found
UpdateLoad(r, i, hdr, body) ==
    /\ FreeSlot(r)
    /\ Receive
    /\ IF ~check_content_type(hdr, "application/json")
       THEN /\ last' = Response("update", i, 415,
                                "Content-Type must be application/json", NoRow, NonMapping)
            /\ UNCHANGED <<pc, sess>>
       ELSE LET recommendation == find(db, NoSession, i) IN
            IF recommendation = NoEntity
            THEN /\ last' = Response("update", i, 404, NotFoundText, NoRow, NonMapping)
                 /\ UNCHANGED <<pc, sess>>
            ELSE /\ pc' = [pc EXCEPT ![r] = "loaded"]
                 /\ sess' = [sess EXCEPT ![r] =
                                [op |-> "update", id |-> i, obj |-> recommendation,
                                 committed |-> recommendation, body |-> body,
                                 txn |-> now]]
                 /\ UNCHANGED last
    /\ UNCHANGED <<db, nextId, now>>

\* whether the persisted token differs from the one the session holds
Stale(s) == db[s.id] # NoRow /\ db[s.id].last_updated # s.obj.last_updated

\* a PUT handler that flushes what deserialize had assigned before it raised
update_recommendations_keeps_partial(s, fails) ==
    LET body == s.body
        i == s.id IN
    IF ~body.wf
    THEN [db |-> db, resp |-> Response("update", i, 400, "Invalid JSON format",
                                       NoRow, NonMapping)]
    ELSE LET d == deserialize(s.obj, body.data) IN
         IF d.exc # ""
         THEN [db |-> commit(db, [s EXCEPT !.obj = d.self], FALSE).db,
               resp |-> Response("update", i, 400, d.msg, NoRow, body.data)]
         ELSE LET u == update(db, [s EXCEPT !.obj = d.self], fails)
                  flags == [Response("update", i, 0, "", NoRow, body.data)
                               EXCEPT !.guarded = TRUE, !.stale = Stale(s),
                                      !.wrote = (u.db # db)] IN
              IF u.exc # ""
              THEN IF u.msg = ConflictText
                   THEN [db |-> db,
                         resp |-> [flags EXCEPT !.code = 409, !.msg = ConflictText]]
                   ELSE [db |-> db,
                         resp |-> [flags EXCEPT !.code = 400, !.msg = u.msg,
                                                !.storeFailed = (u.msg = StoreErrorText)]]
              ELSE IF u.db[i] = NoRow
              THEN [db |-> u.db,
                    resp |-> [flags EXCEPT !.code = 500, !.msg = "Internal Server Error"]]
              ELSE [db |-> u.db,
                    resp |-> [flags EXCEPT !.code = 200, !.body = serialize(u.db[i])]]

\* PUT /recommendations/<id>, from get_json on
update_recommendations(s, fails) ==
    LET body == s.body
        i == s.id IN
    IF ~body.wf
    THEN [db |-> db, resp |-> Response("update", i, 400, "Invalid JSON format",
                                       NoRow, NonMapping)]
    ELSE LET d == deserialize(s.obj, body.data) IN
         IF d.exc # ""
         THEN [db |-> db, resp |-> Response("update", i, 400, d.msg, NoRow, body.data)]
         ELSE LET u == update(db, [s EXCEPT !.obj = d.self], fails)
                  flags == [Response("update", i, 0, "", NoRow, body.data)
                               EXCEPT !.guarded = TRUE, !.stale = Stale(s),
                                      !.wrote = (u.db # db)] IN
              IF u.exc # ""
              THEN IF u.msg = ConflictText
                   THEN [db |-> db,
                         resp |-> [flags EXCEPT !.code = 409, !.msg = ConflictText]]
                   ELSE [db |-> db,
                         resp |-> [flags EXCEPT !.code = 400, !.msg = u.msg,
                                                !.storeFailed = (u.msg = StoreErrorText)]]
              ELSE IF u.db[i] = NoRow     \* the reload for serialize finds no row
              THEN [db |-> u.db,
                    resp |-> [flags EXCEPT !.code = 500, !.msg = "Internal Server Error"]]
              ELSE [db |-> u.db,
                    resp |-> [flags EXCEPT !.code = 200, !.body = serialize(u.db[i])]]

UpdateCommit(r, fails) ==
    /\ pc[r] = "loaded"
    /\ sess[r].op = "update"
    /\ LET h == update_recommendations(sess[r], fails) IN
       /\ db' = h.db
       /\ last' = h.resp
    /\ pc' = [pc EXCEPT ![r] = "idle"]
    /\ sess' = [sess EXCEPT ![r] = NoSession]
    /\ UNCHANGED <<nextId, now, served>>

\* PUT /recommendations/<id>/like, up to the entity found
LikeLoad(r, i) ==
    /\ FreeSlot(r)
    /\ Receive
    /\ LET recommendation == find(db, NoSession, i) IN
       IF recommendation = NoEntity
       THEN /\ last' = Response("like", i, 404, NotFoundText, NoRow, NonMapping)
            /\ UNCHANGED <<pc, sess>>
       ELSE /\ recommendation.like < MaxLike
            /\ pc' = [pc EXCEPT ![r] = "loaded"]
            /\ sess' = [sess EXCEPT ![r] =
                           [op |-> "like", id |-> i, obj |-> recommendation,
                            committed |-> recommendation,
                            body |-> NoSession.body, txn |-> now]]
            /\ UNCHANGED last
    /\ UNCHANGED <<db, nextId, now>>

\* a like handler that counts every like twice
like_recommendations_adds_two(s, fails) ==
    LET i == s.id
        liked == [s EXCEPT !.obj.like = s.obj.like + 2]
        u == update(db, liked, fails)
        flags == [Response("like", i, 0, "", NoRow, NonMapping)
                     EXCEPT !.guarded = TRUE, !.stale = Stale(s),
                            !.wrote = (u.db # db)] IN
    IF u.exc # ""
    THEN [db |-> db,
          resp |-> [flags EXCEPT !.code = request_validation_error, !.msg = u.msg,
                                 !.storeFailed = (u.msg = StoreErrorText)]]
    ELSE [db |-> u.db,
          resp |-> [flags EXCEPT !.code = 200, !.body = serialize(u.db[i])]]

\* PUT /recommendations/<id>/like, from the increment on
like_recommendations(s, fails) ==
    LET i == s.id
        liked == [s EXCEPT !.obj.like = s.obj.like + 1]
        u == update(db, liked, fails)
        flags == [Response("like", i, 0, "", NoRow, NonMapping)
                     EXCEPT !.guarded = TRUE, !.stale = Stale(s),
                            !.wrote = (u.db # db)] IN
    IF u.exc # ""         \* no except clause in the route
    THEN [db |-> db,
          resp |-> [flags EXCEPT !.code = request_validation_error, !.msg = u.msg,
                                 !.storeFailed = (u.msg = StoreErrorText)]]
    ELSE [db |-> u.db,
          resp |-> [flags EXCEPT !.code = 200, !.body = serialize(u.db[i])]]

LikeCommit(r, fails) ==
    /\ pc[r] = "loaded"
    /\ sess[r].op = "like"
    /\ LET h == like_recommendations(sess[r], fails) IN
       /\ db' = h.db
       /\ last' = h.resp
    /\ pc' = [pc EXCEPT ![r] = "idle"]
    /\ sess' = [sess EXCEPT ![r] = NoSession]
    /\ UNCHANGED <<nextId, now, served>>

----------------------------------------------------------------------------
(* Spec: the service *)

NoCall == [called |-> FALSE, data |-> NonMapping, before |-> NewEntity,
           exc |-> "", msg |-> ""]
DeserIdle == ent = NewEntity /\ dcall = NoCall
QueryIdle == store = <<>> /\ pages = <<>>

Init ==
    /\ db = [i \in Ids |-> NoRow]
    /\ nextId = 1
    /\ now = 0
    /\ pc = [r \in Reqs |-> "idle"]
    /\ sess = [r \in Reqs |-> NoSession]
    /\ last = NoResponse
    /\ served = 0
    /\ DeserIdle
    /\ QueryIdle

Next ==
    \/ Tick /\ UNCHANGED <<deserVars, queryVars>>
    \/ \E hdr \in ContentTypes, body \in Bodies, fails \in BOOLEAN :
          CreateRecommendations(hdr, body, fails) /\ UNCHANGED <<deserVars, queryVars>>
    \/ \E i \in Ids : GetRecommendations(i) /\ UNCHANGED <<deserVars, queryVars>>
    \/ \E i \in Ids, fails \in BOOLEAN :
          DeleteRecommendations(i, fails) /\ UNCHANGED <<deserVars, queryVars>>
    \/ \E r \in Reqs, i \in Ids, hdr \in ContentTypes, body \in Bodies :
          UpdateLoad(r, i, hdr, body) /\ UNCHANGED <<deserVars, queryVars>>
    \/ \E r \in Reqs, fails \in BOOLEAN :
          UpdateCommit(r, fails) /\ UNCHANGED <<deserVars, queryVars>>
    \/ \E r \in Reqs, i \in Ids : LikeLoad(r, i) /\ UNCHANGED <<deserVars, queryVars>>
    \/ \E r \in Reqs, fails \in BOOLEAN :
          LikeCommit(r, fails) /\ UNCHANGED <<deserVars, queryVars>>

Spec == Init /\ [][Next]_vars

----------------------------------------------------------------------------
(* SpecDeser: deserialize on arbitrary payloads *)

IdValues ==
    {JInt(1), JInt(2), JInt(0), JInt(-1), JBool(TRUE), JBool(FALSE), JStr("1"), JFloat, JNull}
TypeValues == {JStr("cross-sell"), JStr("accessory"), JStr("active"), JInt(1), JNull}
StatusValues == {JStr("active"), JStr("draft"), JStr("up-sell"), JList, JNull}

ObjectOf(f) ==
    Payload({k \in BusinessKeySet : f[k] # Absent},
            [k \in PayloadKeys |-> IF f[k] = Absent THEN JNull ELSE f[k]])

DeserPayloads ==
    {ObjectOf(Fields(pid, rid, ty, st)) :
        pid \in IdValues \cup {Absent}, rid \in IdValues \cup {Absent},
        ty \in TypeValues \cup {Absent}, st \in StatusValues \cup {Absent}}
    \cup {NonMapping}

\* the instances deserialize is called on: Recommendations() and a loaded one
LoadedEntity ==
    FromRow([id |-> 1, product_id |-> 2, recommended_id |-> 2,
             recommendation_type |-> "up-sell", status |-> "expired",
             like |-> 0, dislike |-> 0, created_at |-> 0, last_updated |-> 0])
StartEntities == {NewEntity, LoadedEntity}

Deserialize(data) ==
    /\ ~dcall.called
    /\ LET d == deserialize(ent, data) IN
       /\ ent' = d.self
       /\ dcall' = [called |-> TRUE, data |-> data, before |-> ent,
                    exc |-> d.exc, msg |-> d.msg]

NewInstance(e) ==
    /\ dcall.called
    /\ ent' = e
    /\ dcall' = NoCall

SvcIdle ==
    /\ db = [i \in Ids |-> NoRow]
    /\ nextId = 1
    /\ now = 0
    /\ pc = [r \in Reqs |-> "idle"]
    /\ sess = [r \in Reqs |-> NoSession]
    /\ last = NoResponse
    /\ served = 0

InitDeser ==
    /\ SvcIdle
    /\ QueryIdle
    /\ ent \in StartEntities
    /\ dcall = NoCall

NextDeser ==
    \/ /\ ~dcall.called
       /\ \E data \in DeserPayloads : Deserialize(data)
       /\ UNCHANGED <<svcVars, queryVars>>
    \/ /\ dcall.called
       /\ \E e \in StartEntities : NewInstance(e)
       /\ UNCHANGED <<svcVars, queryVars>>

SpecDeser == InitDeser /\ [][NextDeser]_vars

----------------------------------------------------------------------------
(* The query filter builder.  A query is the sequence of the rows it       *)
(* selects; before ORDER BY it is in heap order.  SQL leaves the order of  *)
(* rows with equal sort keys (and of all rows, without ORDER BY) to the    *)
(* database, which may choose differently in every query: `tb` is that     *)
(* choice, heap order ("heap") or its reverse ("reverse").                 *)

FilterKeys ==
    {"product_id", "recommended_id", "recommendation_type", "status",
     "created_at_min", "created_at_max", "sort_by", "order", "page", "limit"}

NoFilters == [k \in FilterKeys |-> Absent]
Has(filters, k) == filters[k] # Absent
\* filters.get(k, default)
Get(filters, k, default) == IF Has(filters, k) THEN filters[k] ELSE default

TieBreaks == {"heap", "reverse"}

\* a filter builder that stops at the first equality filter it finds (elif)
_apply_filters_first_only(query, filters) ==
    IF Has(filters, "product_id")
    THEN SelectSeq(query, LAMBDA row : PyEq(JInt(row.product_id), filters["product_id"]))
    ELSE IF Has(filters, "recommended_id")
    THEN SelectSeq(query, LAMBDA row : PyEq(JInt(row.recommended_id), filters["recommended_id"]))
    ELSE IF Has(filters, "recommendation_type")
    THEN SelectSeq(query, LAMBDA row : JStr(row.recommendation_type) = filters["recommendation_type"])
    ELSE IF Has(filters, "status")
    THEN SelectSeq(query, LAMBDA row : JStr(row.status) = filters["status"])
    ELSE query

_apply_filters(query, filters) ==
    LET q1 == IF Has(filters, "product_id")
              THEN SelectSeq(query, LAMBDA row :
                              PyEq(JInt(row.product_id), filters["product_id"]))
              ELSE query
        q2 == IF Has(filters, "recommended_id")
              THEN SelectSeq(q1, LAMBDA row :
                              PyEq(JInt(row.recommended_id), filters["recommended_id"]))
              ELSE q1
        q3 == IF Has(filters, "recommendation_type")
              THEN SelectSeq(q2, LAMBDA row :
                              JStr(row.recommendation_type) = filters["recommendation_type"])
              ELSE q2
    IN  IF Has(filters, "status")
        THEN SelectSeq(q3, LAMBDA row : JStr(row.status) = filters["status"])
        ELSE q3

_apply_date_range(query, filters) ==
    LET q1 == IF Has(filters, "created_at_min")
              THEN SelectSeq(query, LAMBDA row : row.created_at >= filters["created_at_min"].n)
              ELSE query
    IN  IF Has(filters, "created_at_max")
        THEN SelectSeq(q1, LAMBDA row : row.created_at <= filters["created_at_max"].n)
        ELSE q1

SortColumns == {"created_at", "product_id", "recommended_id", "last_updated"}

\* the rows of query in the order the database returns them: by column
\* sort_by when ordered, ties (and everything, when not ordered) as tb says
Ordered(query, ordered, sort_by, asc, tb) ==
    LET n == Len(query)
        Before(i, j) ==
            LET a == IF ordered THEN query[i][sort_by] ELSE 0
                b == IF ordered THEN query[j][sort_by] ELSE 0 IN
            \/ IF asc THEN a < b ELSE a > b
            \/ a = b /\ IF tb = "heap" THEN i < j ELSE i > j
        rank == [i \in 1..n |-> Cardinality({j \in 1..n : Before(j, i)}) + 1]
    IN  [p \in 1..n |-> query[CHOOSE i \in 1..n : rank[i] = p]]

\* getattr(cls, name): created_at and last_updated are columns of the class;
\* product_id and recommended_id are Python properties over the columns
\* _product_id and _recommended_id, and a property object has no asc()/desc()
ClassAttr(name) ==
    IF name \in {"created_at", "last_updated"} THEN "column" ELSE "property"

Rows(query) == [exc |-> "", msg |-> "", rows |-> query]
QueryRaised(e, m) == [exc |-> e, msg |-> m, rows |-> <<>>]

_apply_sorting(query, filters, tb) ==
    LET sort_by == Get(filters, "sort_by", JStr("created_at"))
        order == Get(filters, "order", JStr("desc")) IN
    IF sort_by.t = "str" /\ sort_by.s \in SortColumns
    THEN IF ClassAttr(sort_by.s) = "column"
         THEN Rows(Ordered(query, TRUE, sort_by.s, order = JStr("asc"), tb))
         ELSE QueryRaised("AttributeError",
                          "'property' object has no attribute '"
                              \o (IF order = JStr("asc") THEN "asc" ELSE "desc") \o "'")
    ELSE Rows(Ordered(query, FALSE, "", FALSE, tb))

DefaultPage == 1
DefaultLimit == 10

\* OFFSET offset LIMIT limit: the rows after the first offset, at most limit
Slice(query, offset, limit) ==
    LET last_row == IF offset + limit < Len(query) THEN offset + limit ELSE Len(query) IN
    [i \in 1..(last_row - offset) |-> query[offset + i]]

\* a pagination that counts pages from 0
_apply_pagination_from_zero(query, filters) ==
    LET page == Get(filters, "page", JInt(DefaultPage)).n
        limit == Get(filters, "limit", JInt(DefaultLimit)).n
        offset == page * limit IN
    Slice(query, offset, limit)

_apply_pagination(query, filters) ==
    LET page == Get(filters, "page", JInt(DefaultPage)).n
        limit == Get(filters, "limit", JInt(DefaultLimit)).n
        offset == (page - 1) * limit IN
    Slice(query, offset, limit)

\* Recommendations.find_by_filters: the rows it returns, or what it raises
find_by_filters(table, filters, tb) ==
    LET q1 == _apply_filters(table, filters)
        q2 == _apply_date_range(q1, filters)
        q3 == _apply_sorting(q2, filters, tb) IN
    IF q3.exc # "" THEN q3
    ELSE LET page == Get(filters, "page", JInt(DefaultPage)).n
             limit == Get(filters, "limit", JInt(DefaultLimit)).n IN
         \* query.all(): the database refuses a negative OFFSET or LIMIT
         IF (page - 1) * limit < 0
         THEN QueryRaised("DataError", "OFFSET must not be negative")
         ELSE IF limit < 0
         THEN QueryRaised("DataError", "LIMIT must not be negative")
         ELSE Rows(_apply_pagination(q3.rows, filters))

----------------------------------------------------------------------------
(* SpecQuery: find_by_filters over tables of up to MaxBlock + MaxExtra rows *)

RowKinds ==
    [product_id : {1, 2}, status : {"active", "expired"}, created_at : Times]
BlockKinds == {k \in RowKinds : k.product_id = 1 /\ k.status = "active"}

QRow(i, k) ==
    [id |-> i, product_id |-> k.product_id, recommended_id |-> 3 - k.product_id,
     recommendation_type |-> "cross-sell", status |-> k.status,
     like |-> 0, dislike |-> 0,
     created_at |-> k.created_at,
     \* an expired row is one that was updated after its creation
     last_updated |-> IF k.status = "expired" THEN k.created_at + 1
                      ELSE k.created_at]

RECURSIVE SeqsUpTo(_, _)
SeqsUpTo(S, n) ==
    IF n = 0 THEN {<<>>}
    ELSE LET shorter == SeqsUpTo(S, n - 1) IN
         shorter \cup {Append(q, x) : q \in {t \in shorter : Len(t) = n - 1}, x \in S}

\* the tables: a block of rows alike but for their id, then the extra rows
Tables ==
    {[i \in 1..(n + Len(extra)) |->
         IF i <= n THEN QRow(i, k) ELSE QRow(i, extra[i - n])] :
        k \in BlockKinds, n \in 0..MaxBlock, extra \in SeqsUpTo(RowKinds, MaxExtra)}

Filter(pid, st, page, limit) ==
    [NoFilters EXCEPT !["product_id"] = pid, !["status"] = st,
                      !["page"] = page, !["limit"] = limit]

SortFilter(sort_by, order) ==
    [NoFilters EXCEPT !["sort_by"] = sort_by, !["order"] = order]

SortByValues == {JStr(c) : c \in SortColumns} \cup {JStr("id")}
OrderValues == {Absent, JStr("asc"), JStr("desc")}

\* filters with a range of created_at and a page
RangeFilter(lo, hi, page, limit) ==
    [NoFilters EXCEPT !["created_at_min"] = lo, !["created_at_max"] = hi,
                      !["page"] = page, !["limit"] = limit]

RangeFilters ==
    {RangeFilter(lo, hi, pl[1], pl[2]) :
        lo \in {Absent, JInt(1)}, hi \in {Absent, JInt(0)},
        pl \in {<<Absent, Absent>>, <<JInt(2), JInt(1)>>}}
    \cup {RangeFilter(Absent, Absent, JInt(1), JInt(0)),
          [RangeFilter(JInt(0), JInt(1), JInt(2), JInt(1))
              EXCEPT !["product_id"] = JInt(1), !["sort_by"] = JStr("last_updated"),
                     !["order"] = JStr("asc")]}

QueryFilters ==
    {Filter(pid, st, Absent, Absent) :
        pid \in {Absent, JInt(1), JInt(2)},
        st \in {Absent, JStr("active"), JStr("expired")}}
    \cup {SortFilter(sort_by, order) : sort_by \in SortByValues, order \in OrderValues}
    \cup RangeFilters

\* the record of one call of find_by_filters and what it gave
Called(filters, r) ==
    [op |-> "find_by_filters", filters |-> filters, exc |-> r.exc, result |-> r.rows]

\* one call of find_by_filters
Query(filters, tb) ==
    /\ pages = <<>>
    /\ pages' = <<Called(filters, find_by_filters(store, filters, tb))>>
    /\ UNCHANGED store

NumPages == (Len(store) + DefaultLimit - 1) \div DefaultLimit
PageFilter(k) == Filter(Absent, Absent, JInt(k), JInt(DefaultLimit))

\* a caller reading the table page by page, limit 10, the table unchanged
ListPages(tbs) ==
    /\ pages = <<>>
    /\ NumPages > 0
    /\ pages' = [k \in 1..NumPages |->
                    Called(PageFilter(k), find_by_filters(store, PageFilter(k), tbs[k]))]
    /\ UNCHANGED store

InitQuery ==
    /\ SvcIdle
    /\ DeserIdle
    /\ store \in Tables
    /\ pages = <<>>

NextQuery ==
    \/ \E filters \in QueryFilters, tb \in TieBreaks :
          Query(filters, tb) /\ UNCHANGED <<svcVars, deserVars>>
    \/ \E tbs \in [1..NumPages -> TieBreaks] :
          ListPages(tbs) /\ UNCHANGED <<svcVars, deserVars>>

SpecQuery == InitQuery /\ [][NextQuery]_vars

----------------------------------------------------------------------------
(* GET /recommendations.  The query string gives each parameter as text:   *)
(* QInt(k) is the text of the integer k, QText(x) any other text x.        *)

QInt(k) == [t |-> "numeral", n |-> k, s |-> ""]
QText(x) == [t |-> "text", n |-> 0, s |-> x]

NoArgs == [k \in FilterKeys |-> Absent]

Parsed(value) == [exc |-> "", msg |-> "", value |-> value]
BadRequest(m) == [exc |-> "BadRequest", msg |-> m, value |-> Absent]

\* parse_int_param: int(request.args.get(param_name))
parse_int_param(args, param_name) ==
    IF args[param_name].t = "numeral" THEN Parsed(JInt(args[param_name].n))
    ELSE BadRequest("Invalid data type: must be an integer")

validate_enum_param(param_name, value, valid_options) ==
    IF value.t = "text" /\ value.s \in valid_options THEN Parsed(JStr(value.s))
    ELSE BadRequest("Invalid " \o param_name \o ": must be one of")

\* the text of a parameter, as request.args.get returns it
ArgText(value) == IF value.t = "text" THEN JStr(value.s) ELSE JStr("numeral")

\* the keys filters_from_args reads, in the order it reads them
ArgsRead ==
    <<"product_id", "recommended_id", "page", "limit",
      "recommendation_type", "status", "sort_by", "order">>

ReadArg(args, key) ==
    CASE key \in {"product_id", "recommended_id", "page", "limit"} ->
            parse_int_param(args, key)
      [] key = "recommendation_type" ->
            validate_enum_param(key, args[key], RecommendationTypes)
      [] key = "status" -> validate_enum_param(key, args[key], Statuses)
      [] OTHER -> Parsed(ArgText(args[key]))

RECURSIVE ReadArgs(_, _, _)
ReadArgs(res, args, i) ==
    IF i > Len(ArgsRead) \/ res.exc # "" THEN res
    ELSE LET key == ArgsRead[i] IN
         IF args[key] = Absent THEN ReadArgs(res, args, i + 1)
         ELSE LET p == ReadArg(args, key) IN
              IF p.exc # ""
              THEN [exc |-> p.exc, msg |-> p.msg, filters |-> res.filters]
              ELSE ReadArgs([res EXCEPT !.filters[key] = p.value], args, i + 1)

filters_from_args(args) ==
    ReadArgs([exc |-> "", msg |-> "", filters |-> NoFilters], args, 1)

Listed(args, code, msg, called, filters, result) ==
    [op |-> "list", args |-> args, code |-> code, msg |-> msg, called |-> called,
     filters |-> filters, result |-> result]

\* list_recommendations on the table; tb as in find_by_filters
list_recommendations(table, args, tb) ==
    LET f == filters_from_args(args) IN
    IF f.exc # "" THEN Listed(args, 400, f.msg, FALSE, NoFilters, <<>>)
    ELSE LET r == find_by_filters(table, f.filters, tb) IN
         IF r.exc # ""       \* no handler in the route: the framework answers
         THEN Listed(args, 500, "Internal Server Error", TRUE, f.filters, <<>>)
         ELSE Listed(args, 200, "", TRUE, f.filters,
                     [i \in 1..Len(r.rows) |-> serialize(r.rows[i])])

----------------------------------------------------------------------------
(* SpecList: GET /recommendations over tables of up to MaxListed rows *)

ArgsWith(k, v) == [NoArgs EXCEPT ![k] = v]

ListArgs ==
    {NoArgs}
    \cup {ArgsWith(k, v) : k \in {"product_id", "recommended_id", "page", "limit"},
                           v \in {QInt(1), QInt(2), QText("abc")}}
    \cup {ArgsWith(k, v) : k \in {"page", "limit"}, v \in {QInt(0), QInt(-1)}}
    \cup {ArgsWith(k, v) : k \in {"recommendation_type", "status"},
                           v \in {QText("active"), QText("cross-sell"), QText("bogus")}}
    \cup {ArgsWith(k, QInt(t)) : k \in {"created_at_min", "created_at_max"}, t \in Times}
    \cup {ArgsWith("sort_by", QText(c)) : c \in SortColumns \cup {"id"}}
    \cup {ArgsWith("order", QText(o)) : o \in {"asc", "desc"}}
    \cup {[NoArgs EXCEPT !["product_id"] = v, !["recommended_id"] = w, !["status"] = x] :
             v \in {QInt(1), QText("abc")}, w \in {QInt(2), QText("abc")},
             x \in {QText("active"), QText("bogus")}}

ListRecommendations(args, tb) ==
    /\ pages = <<>>
    /\ pages' = <<list_recommendations(store, args, tb)>>
    /\ UNCHANGED store

InitList ==
    /\ SvcIdle
    /\ DeserIdle
    /\ store \in {t \in Tables : Len(t) <= MaxListed}
    /\ pages = <<>>

NextList ==
    \E args \in ListArgs, tb \in TieBreaks :
        ListRecommendations(args, tb) /\ UNCHANGED <<svcVars, deserVars>>

SpecList == InitList /\ [][NextList]_vars

----------------------------------------------------------------------------
(* The claims *)

\* the four business fields of a row and of a payload
RowBusiness(row) ==
    <<JInt(row.product_id), JInt(row.recommended_id),
      JStr(row.recommendation_type), JStr(row.status)>>
PayloadBusiness(data) ==
    <<data.val["product_id"], data.val["recommended_id"],
      data.val["recommendation_type"], data.val["status"]>>

\* a payload as the specification asks for it
WellFormed(data) ==
    /\ data.isMap
    /\ BusinessKeySet \subseteq data.keys
    /\ data.val["product_id"].t = "int" /\ data.val["product_id"].n > 0
    /\ data.val["recommended_id"].t = "int" /\ data.val["recommended_id"].n > 0
    /\ data.val["recommendation_type"].t = "str"
    /\ data.val["recommendation_type"].s \in RecommendationTypes
    /\ data.val["status"].t = "str"
    /\ data.val["status"].s \in Statuses

\* C1: an update whose session holds a token that differs from the persisted
\* last_updated (another request updated the entity after this one loaded it)
\* fails with the concurrency-conflict error and commits nothing.
C1_StaleUpdateRejected ==
    (last.op = "update" /\ last.guarded /\ last.stale)
        => (last.msg = ConflictText /\ ~last.wrote)

\* C2: a PUT that reaches the guard while the persisted last_updated differs
\* from the in-memory one answers 409, and the step changes no row.
C2_ConflictAnswers409 ==
    [][\A r \in Reqs, fails \in BOOLEAN :
          (UpdateCommit(r, fails) /\ last'.guarded /\ Stale(sess[r]))
              => (last'.code = 409 /\ db' = db)]_vars

\* C3: deserialize succeeds exactly on the well-formed payloads, and raises
\* nothing but DataValidationError.
C3_DeserializeIff ==
    dcall.called =>
        /\ (dcall.exc = "") <=> WellFormed(dcall.data)
        /\ dcall.exc \in {"", "DataValidationError"}

\* C4: a deserialize that raises leaves the four business fields of the
\* entity as they were before the call.
C4_NoPartialState ==
    (dcall.called /\ dcall.exc # "")
        => \A k \in BusinessKeySet : ent[k] = dcall.before[k]

\* C5: a request whose commit the store fails answers 500 and leaves the
\* table as it was.
C5_StoreFailureAnswers500 ==
    last.storeFailed => (last.code = 500 /\ ~last.wrote)

\* C6: a DELETE the store does not fail answers 204 and leaves the id absent;
\* a DELETE of an absent id, deleted before or never assigned, answers 204
\* with the same response and changes nothing.
C6_DeleteIdempotent ==
    [][\A i \in Ids, fails \in BOOLEAN :
          DeleteRecommendations(i, fails) =>
              /\ ~last'.storeFailed => (last'.code = 204 /\ db'[i] = NoRow)
              /\ db[i] = NoRow =>
                    /\ db' = db
                    /\ last' = Response("delete", i, 204, "", NoRow, NonMapping)]_vars

C6_SecondDelete ==
    /\ last.op = "delete" /\ last.code = 204 /\ ~last.wrote
    /\ last.id < nextId

\* C7: a POST of a well-formed payload that answers 201 with id i makes GET i
\* answer 200 with the payload's four business fields; what GET i answers
\* for these fields changes only in the step of a PUT on i answering 200 or a
\* DELETE on i answering 204; once i, an id a POST returned, is deleted,
\* GET i answers 404 ever after.
C7_Lifecycle ==
    [][/\ (nextId' # nextId /\ last'.op = "create" /\ last'.code = 201
               /\ WellFormed(last'.data))
              => LET g == get_recommendations(db', last'.id) IN
                 g.code = 200 /\ RowBusiness(g.body) = PayloadBusiness(last'.data)
       /\ \A i \in Ids :
            LET g == get_recommendations(db, i)
                h == get_recommendations(db', i) IN
            /\ (g.code = 200
                  /\ (h.code # 200 \/ RowBusiness(h.body) # RowBusiness(g.body)))
                 => /\ last'.id = i
                    /\ \/ last'.op = "update" /\ last'.code = 200 /\ h.code = 200
                       \/ last'.op = "delete" /\ last'.code = 204 /\ h.code = 404
            /\ (i < nextId /\ g.code = 404) => h.code = 404
            /\ (served' # served /\ last'.op = "delete" /\ last'.code = 204
                   /\ last'.id = i)
                 => h.code = 404]_vars

C7_GetAfterDelete ==
    /\ last.op = "get" /\ last.code = 404
    /\ last.id < nextId

\* C14: a PUT with a valid payload that answers 200 returns the entity with
\* its business fields, like and dislike equal to the payload's values.
C14_UpdateReturnsPayload ==
    (last.op = "update" /\ last.code = 200 /\ WellFormed(last.data)) =>
        /\ RowBusiness(last.body) = PayloadBusiness(last.data)
        /\ "like" \in last.data.keys => JInt(last.body.like) = last.data.val["like"]
        /\ "dislike" \in last.data.keys =>
              JInt(last.body.dislike) = last.data.val["dislike"]

\* C15: a like of an id that is stored, when the store does not fail the
\* commit, answers 200; a like that answers 200 leaves like at the value the
\* request read plus 1, changes no other field than last_updated, changes no
\* other row, and a GET of the id then shows that like.
C15_LikeAddsOne ==
    [][\A r \in Reqs, fails \in BOOLEAN :
          LikeCommit(r, fails) =>
              LET s == sess[r]
                  i == sess[r].id IN
              /\ (~fails /\ db[i] # NoRow) => last'.code = 200
              /\ last'.code = 200 =>
                    /\ db'[i] = [db[i] EXCEPT !.like = s.obj.like + 1,
                                              !.last_updated = db'[i].last_updated]
                    /\ last'.body = db'[i]
                    /\ get_recommendations(db', i).code = 200
                    /\ get_recommendations(db', i).body.like = s.obj.like + 1
                    /\ \A j \in Ids : j # i => db'[j] = db[j]]_vars

\* a like has been counted on top of an earlier one
C15_LikedAgain ==
    last.op = "like" /\ last.code = 200 /\ last.wrote /\ last.body.like = 2

\* C16: a PUT or a like that answers 200 refreshes the token: the persisted
\* last_updated after the request differs from the one before it.  (Stated
\* for requests whose clock reading differs from the persisted token, so
\* that a refreshed token cannot equal the old one by the coarse clock.)
C16_TokenRefreshed ==
    [][\A r \in Reqs, fails \in BOOLEAN :
          ((UpdateCommit(r, fails) \/ LikeCommit(r, fails))
              /\ last'.code = 200
              /\ sess[r].txn # db[sess[r].id].last_updated)
            => db'[sess[r].id].last_updated # db[sess[r].id].last_updated]_vars

\* C17: no request changes the id or the created_at of a stored entity: a
\* row stored before and after a step keeps both, its id is its key, and an
\* update or like that answers 200 returns them unchanged.
C17_IdAndCreatedAtKept ==
    [][\A i \in Ids :
          /\ (db[i] # NoRow /\ db'[i] # NoRow) =>
                /\ db'[i].id = db[i].id
                /\ db'[i].created_at = db[i].created_at
          /\ db'[i] # NoRow => db'[i].id = i
          /\ (served' = served /\ last'.op \in {"update", "like"} /\ last'.code = 200
                 /\ last'.id = i /\ db[i] # NoRow) =>
                /\ last'.body.id = i
                /\ last'.body.created_at = db[i].created_at]_vars

\* a PUT whose payload carries another id has rewritten a row after the
\* clock advanced
C17_UpdatedLater ==
    /\ last.op = "update" /\ last.code = 200 /\ last.wrote
    /\ "id" \in last.data.keys /\ last.data.val["id"] # JInt(last.id)
    /\ last.body.last_updated # last.body.created_at

\* C18: in every reachable state every stored entity has product_id > 0,
\* recommended_id > 0, recommendation_type and status in their enumerations,
\* like >= 0 and dislike >= 0.
C18_StoredEntityValid ==
    \A i \in Ids :
        db[i] # NoRow =>
            /\ db[i].product_id > 0
            /\ db[i].recommended_id > 0
            /\ db[i].recommendation_type \in RecommendationTypes
            /\ db[i].status \in Statuses
            /\ db[i].like >= 0
            /\ db[i].dislike >= 0

\* a PUT on a stored entity was refused for its recommended_id, after its
\* product_id had been assigned to the instance
C18_InvalidUpdateRefused ==
    /\ last.op = "update" /\ last.code = 400
    /\ last.msg = "Invalid recommended_id: must be a positive number"
    /\ db[last.id] # NoRow
    /\ JInt(db[last.id].product_id) # last.data.val["product_id"]

\* C19: a POST answering 201 stores the entity under the next value of the
\* store's sequence, whatever "id" the payload carries; that value is above
\* every id assigned before, so that no id is assigned twice, also when the
\* entity that held it has been deleted; the sequence never goes back.
C19_IdFromStore ==
    [][/\ (/\ served' # served /\ last'.op = "create" /\ last'.code = 201
           /\ \E hdr \in ContentTypes, body \in Bodies, fails \in BOOLEAN :
                  CreateRecommendations(hdr, body, fails)) =>
              /\ last'.id = nextId
              /\ last'.body.id = nextId
              /\ db[nextId] = NoRow /\ db'[nextId] = last'.body
              /\ nextId' = nextId + 1
              /\ \A i \in Ids \ {nextId} : db'[i] = db[i]
       /\ nextId' >= nextId
       /\ \A i \in Ids : i >= nextId' => db'[i] = NoRow]_vars

\* a POST carrying the id of a deleted entity was given a new id
C19_CreatedAfterDelete ==
    /\ last.op = "create" /\ last.code = 201
    /\ "id" \in last.data.keys
    /\ \E i \in Ids :
          /\ last.data.val["id"] = JInt(i)
          /\ i < last.id
          /\ db[i] = NoRow

\* C20: a POST /recommendations or a PUT /recommendations/{id} whose
\* Content-Type header is absent or differs from "application/json" answers
\* 415 and leaves the store, the sequence and every open session as they
\* were, for every body and for every id, stored or not.  (A step of POST
\* sets last.op to "create"; a step of PUT's first half either answers with
\* last.op "update" and its id, or opens the session of its slot.)
C20_UnsupportedMediaType ==
    [][served' # served =>
          LET Refused == ContentTypes \ {"application/json"} IN
          /\ last'.op = "create" =>
                \A hdr \in Refused, body \in Bodies :
                    (\E fails \in BOOLEAN : CreateRecommendations(hdr, body, fails)) =>
                        /\ last'.code = 415
                        /\ db' = db /\ nextId' = nextId
          /\ \A r \in Reqs :
                FreeSlot(r) =>
                    /\ pc'[r] = "loaded" =>
                          \A hdr \in Refused, body \in Bodies, i \in Ids :
                              ~UpdateLoad(r, i, hdr, body)
                    /\ last'.op = "update" =>
                          \A hdr \in Refused, body \in Bodies :
                              UpdateLoad(r, last'.id, hdr, body) =>
                                  /\ last'.code = 415
                                  /\ db' = db /\ pc' = pc /\ sess' = sess]_vars

\* a PUT on an id never assigned was refused for its Content-Type
C20_RefusedBeforeLookup ==
    /\ last.op = "update" /\ last.code = 415
    /\ last.id >= nextId
    /\ \E i \in Ids : db[i] # NoRow

\* C21: GET /recommendations/{id}, PUT /recommendations/{id} with
\* Content-Type application/json and PUT /recommendations/{id}/like answer
\* 404 when no entity with the id is stored at the lookup, and then change
\* nothing; when the entity is stored at the lookup they do not answer 404,
\* neither at once nor in the later step that commits.
C21_NotFoundIffAbsent ==
    [][/\ served' # served =>
            /\ \A i \in Ids :
                  GetRecommendations(i) =>
                      /\ last'.code = 404 <=> db[i] = NoRow
                      /\ db' = db
            /\ \A r \in Reqs :
                  FreeSlot(r) =>
                      \A i \in Ids :
                          /\ \A body \in Bodies :
                                UpdateLoad(r, i, "application/json", body) =>
                                    IF db[i] = NoRow
                                    THEN /\ last'.op = "update" /\ last'.id = i
                                         /\ last'.code = 404
                                         /\ db' = db /\ pc' = pc /\ sess' = sess
                                    ELSE pc'[r] = "loaded" /\ last' = last
                          /\ LikeLoad(r, i) =>
                                IF db[i] = NoRow
                                THEN /\ last'.op = "like" /\ last'.id = i
                                     /\ last'.code = 404
                                     /\ db' = db /\ pc' = pc /\ sess' = sess
                                ELSE pc'[r] = "loaded" /\ last' = last
       /\ \A r \in Reqs :
            (pc[r] = "loaded" /\ pc'[r] = "idle") => last'.code # 404]_vars

\* a like of an id whose entity was deleted was answered 404
C21_LikeOfDeleted ==
    /\ last.op = "like" /\ last.code = 404
    /\ last.id < nextId
    /\ db[last.id] = NoRow

\* C22: deserialize accepts every well-formed payload, and serialize of the
\* instance it returns has product_id, recommended_id, recommendation_type
\* and status equal to the payload's.
C22_RoundTrip ==
    (dcall.called /\ WellFormed(dcall.data)) =>
        /\ dcall.exc = ""
        /\ \A k \in BusinessKeySet : serialize_instance(ent)[k] = dcall.data.val[k]

\* a well-formed payload with two different ids was deserialized into a
\* loaded instance and changed its product_id, its type and its status
C22_LoadedInstanceRewritten ==
    /\ dcall.called /\ dcall.exc = "" /\ WellFormed(dcall.data)
    /\ dcall.before = LoadedEntity
    /\ \A k \in {"product_id", "recommendation_type", "status"} :
          ent[k] # dcall.before[k]
    /\ ent.product_id # ent.recommended_id

\* C23: when the row of the entity was deleted after the request loaded it,
\* a PUT or like that reaches update() is not answered with the concurrency
\* conflict: update() goes on to the commit, and the answer is the commit's
\* outcome (the flush finding no row, the store failing, or the reload for
\* the response finding no row); no row is written.
C23_DeletedIsNoConflict ==
    [][\A r \in Reqs :
          (pc[r] = "loaded" /\ pc'[r] = "idle" /\ db[sess[r].id] = NoRow
              /\ last'.guarded) =>
              /\ last'.code # 409 /\ last'.msg # ConflictText
              /\ last'.msg \in {StaleDataText, StoreErrorText, "Internal Server Error"}
              /\ last'.msg = StaleDataText <=> Dirty([sess[r] EXCEPT
                                                  !.obj = IF sess[r].op = "like"
                                                          THEN [sess[r].obj EXCEPT !.like = @ + 1]
                                                          ELSE deserialize(sess[r].obj, sess[r].body.data).self]) # {}
              /\ db' = db]_vars

\* a PUT that changes a field was committed after its row had been deleted
C23_UpdateOfDeletedRow ==
    /\ last.op = "update" /\ last.guarded
    /\ last.msg = StaleDataText
    /\ db[last.id] = NoRow

\* C24: a like that reaches update() while the persisted last_updated differs
\* from the token its session holds (the conflict the guard is to detect)
\* answers 409, as PUT /recommendations/{id} is to do.
C24_LikeConflictAnswers409 ==
    [][\A r \in Reqs :
          (pc[r] = "loaded" /\ pc'[r] = "idle" /\ sess[r].op = "like"
              /\ Stale(sess[r]))
              => last'.code = 409]_vars

\* C25: the response of a POST, PUT or DELETE never carries the text of an
\* exception of the store or the ORM, and when the store failed the request
\* its message is one of the fixed generic messages.
C25_NoInternalText ==
    last.op \in {"create", "update", "delete"} =>
        /\ last.msg \notin {StoreErrorText, StaleDataText}
        /\ last.storeFailed =>
              last.msg \in {"Database error occurred", "Internal server error",
                            "An unexpected error occurred"}

\* C27: every like that answers 200 raises the persisted like counter of its
\* entity by one, whatever other likes of the entity committed since it read
\* the counter; so that k likes answering 200 leave the counter at its
\* initial value + k.
C27_NoLikeLost ==
    [][\A r \in Reqs :
          (pc[r] = "loaded" /\ pc'[r] = "idle" /\ sess[r].op = "like"
              /\ last'.code = 200)
              => db'[sess[r].id].like = db[sess[r].id].like + 1]_vars

\* C28: a PUT that answers 400 because its body is malformed or its payload
\* fails validation leaves nothing behind: no row changes, so that GET of
\* every id answers as before; its session ends with the request; and the
\* instances of the sessions still open hold only what they loaded, so that
\* no later commit can write a value of the rejected payload.
C28_RejectedPutLeavesNoTrace ==
    [][\A r \in Reqs :
          (pc[r] = "loaded" /\ pc'[r] = "idle" /\ sess[r].op = "update"
              /\ last'.code = 400 /\ ~last'.guarded) =>
              /\ db' = db /\ nextId' = nextId
              /\ \A i \in Ids : get_recommendations(db', i) = get_recommendations(db, i)
              /\ sess' = [sess EXCEPT ![r] = NoSession]
              /\ \A q \in Reqs : sess'[q].obj = sess'[q].committed]_vars

\* a PUT whose payload has a valid product_id and an invalid recommended_id
\* was rejected while another request that had loaded the same entity is
\* still to commit
C28_RejectedWhileAnotherLoaded ==
    /\ last.op = "update" /\ last.code = 400 /\ ~last.guarded
    /\ last.data.val["product_id"] = JInt(2)
    /\ db[last.id] # NoRow /\ db[last.id].product_id = 1
    /\ \E q \in Reqs : pc[q] = "loaded" /\ sess[q].id = last.id

----------------------------------------------------------------------------
(* Claims about find_by_filters (SpecQuery) *)

\* the one call of find_by_filters made last was with these filters
Queried(filters) ==
    Len(pages) = 1 /\ pages[1].op = "find_by_filters" /\ pages[1].filters = filters
\* the table was read page by page
Scanned ==
    /\ NumPages > 0
    /\ Len(pages) = NumPages
    /\ \A k \in 1..NumPages : pages[k].filters = PageFilter(k)

IdsOf(rows) == {rows[i].id : i \in 1..Len(rows)}
NewestFirst(rows) ==
    \A i, j \in 1..Len(rows) : i < j => rows[i].created_at >= rows[j].created_at
Matching(Test(_)) == Cardinality({i \in 1..Len(store) : Test(store[i])})

SortedBy(rows, column, asc) ==
    \A i, j \in 1..Len(rows) :
        i < j => IF asc THEN rows[i][column] <= rows[j][column]
                 ELSE rows[i][column] >= rows[j][column]

\* C11: for sort_by created_at, product_id, recommended_id or last_updated,
\* find_by_filters returns without error rows of the table ordered by that
\* column, ascending for order "asc" and descending for "desc" or no order;
\* for another sort_by it returns rows of the table without error.
C11_SortsByEachField ==
    \A sort_by \in SortByValues, order \in OrderValues :
        Queried(SortFilter(sort_by, order)) =>
            LET result == pages[1].result IN
            /\ pages[1].exc = ""
            /\ Len(result) = (IF Len(store) < DefaultLimit THEN Len(store) ELSE DefaultLimit)
            /\ IdsOf(result) \subseteq IdsOf(store)
            /\ sort_by.s \in SortColumns => SortedBy(result, sort_by.s, order = JStr("asc"))

\* whether a row satisfies every equality filter and bound supplied
Satisfies(row, filters) ==
    /\ Has(filters, "product_id") => JInt(row.product_id) = filters["product_id"]
    /\ Has(filters, "recommended_id") => JInt(row.recommended_id) = filters["recommended_id"]
    /\ Has(filters, "recommendation_type") =>
          JStr(row.recommendation_type) = filters["recommendation_type"]
    /\ Has(filters, "status") => JStr(row.status) = filters["status"]
    /\ Has(filters, "created_at_min") => row.created_at >= filters["created_at_min"].n
    /\ Has(filters, "created_at_max") => row.created_at <= filters["created_at_max"].n

\* the place of a row in the requested order: its sort column, negated for a
\* descending order; 0 when no order is requested
SortKey(row, filters) ==
    LET sort_by == Get(filters, "sort_by", JStr("created_at")).s IN
    IF sort_by \notin SortColumns THEN 0
    ELSE IF Get(filters, "order", JStr("desc")) = JStr("asc") THEN row[sort_by]
    ELSE 0 - row[sort_by]

\* C26: for page >= 1 and limit >= 0, find_by_filters returns without error
\* the rows at places (page-1)*limit + 1 .. (page-1)*limit + limit of the
\* rows of the table that satisfy the filters, put in the requested order
\* (rows with equal sort keys in any order); no rows when none is there.
C26_ReferenceSemantics ==
    (Len(pages) = 1 /\ pages[1].op = "find_by_filters") =>
        LET filters == pages[1].filters
            result == pages[1].result
            page == Get(filters, "page", JInt(DefaultPage)).n
            limit == Get(filters, "limit", JInt(DefaultLimit)).n
            offset == (page - 1) * limit
            matching == SelectSeq(store, LAMBDA row : Satisfies(row, filters))
            rest == Len(matching) - offset
            n == IF rest < 0 THEN 0 ELSE IF rest < limit THEN rest ELSE limit
            Upto(key, strict) ==
                Cardinality({j \in 1..Len(matching) :
                                IF strict THEN SortKey(matching[j], filters) < key
                                ELSE SortKey(matching[j], filters) <= key})
        IN  (page >= 1 /\ limit >= 0) =>
                /\ pages[1].exc = ""
                /\ Len(result) = n
                /\ Cardinality(IdsOf(result)) = n
                /\ \A p \in 1..n :
                      /\ \E j \in 1..Len(matching) : result[p] = matching[j]
                      /\ Upto(SortKey(result[p], filters), TRUE) <= offset + p - 1
                      /\ Upto(SortKey(result[p], filters), FALSE) >= offset + p

----------------------------------------------------------------------------
(* Claims about GET /recommendations (SpecList) *)

\* GET /recommendations was answered
ListAnswered == Len(pages) = 1 /\ pages[1].op = "list"

\* C12: every recognized filter key supplied in the query string reaches the
\* query builder; a created_at_min or created_at_max parameter restricts the
\* returned rows to created_at >= / <= its value.
C12_EveryKeyHasItsEffect ==
    (ListAnswered /\ pages[1].called) =>
        LET args == pages[1].args
            result == pages[1].result IN
        /\ \A k \in FilterKeys : args[k] # Absent => Has(pages[1].filters, k)
        /\ args["created_at_min"] # Absent =>
              \A i \in 1..Len(result) : result[i].created_at >= args["created_at_min"].n
        /\ args["created_at_max"] # Absent =>
              \A i \in 1..Len(result) : result[i].created_at <= args["created_at_max"].n

\* C13: a product_id or recommended_id parameter that is not an integer is
\* answered 400 with a message naming the field, and no query is run.
C13_MessageNamesField ==
    ListAnswered =>
        LET args == pages[1].args IN
        /\ args["product_id"].t = "text" =>
              /\ pages[1].code = 400 /\ ~pages[1].called
              /\ pages[1].msg = "Invalid product_id: must be an integer"
        /\ (args["product_id"].t # "text" /\ args["recommended_id"].t = "text") =>
              /\ pages[1].code = 400 /\ ~pages[1].called
              /\ pages[1].msg = "Invalid recommended_id: must be an integer"

\* C29: whenever GET /recommendations accepts its query string and calls
\* find_by_filters, the offset (page-1)*limit and the limit of the query are
\* both non-negative.
C29_OffsetAndLimitNonNegative ==
    (ListAnswered /\ pages[1].called) =>
        LET page == Get(pages[1].filters, "page", JInt(DefaultPage)).n
            limit == Get(pages[1].filters, "limit", JInt(DefaultLimit)).n IN
        /\ (page - 1) * limit >= 0
        /\ limit >= 0

=============================================================================
